---- MODULE Spec2Model ----
(***************************************************************************)
(* Gateway job orchestration of Mercado-Backend.                           *)
(*                                                                         *)
(* The model follows gateway/app/main.py (the HTTP handlers analyze and    *)
(* cancel_job), gateway/app/pipeline.py (run_pipeline, check_if_cancelled, *)
(* _update_job) and gateway/app/db.py (the jobs table).                    *)
(*                                                                         *)
(* run_pipeline is a synchronous function handed to BackgroundTasks, so it *)
(* runs on a worker thread, concurrently with the event loop that serves   *)
(* cancel_job.  Every access to the jobs table is one atomic step; the     *)
(* code between two accesses is local and is folded into the step of the   *)
(* access that precedes it.  A stage call (an HTTP request to a remote     *)
(* service) is in flight between the step that sends it and the step that  *)
(* receives its response or its exception.                                 *)
(*                                                                         *)
(* The columns created_at and updated_at are wall-clock timestamps that no *)
(* handler reads; they are left out of the record.                         *)
(***************************************************************************)
EXTENDS Integers, Sequences, FiniteSets, TLC

\* ------------------------------------------------------------------ bounds
\* Largest number of items the scrape stage returns.
MaxRaw == 16
\* Largest number of items the classify stage accepts.
MaxClean == 6
\* Number of POST /cancel requests issued per job id.
MaxCancels == 2
\* Number of GET /status and GET /result requests served.
MaxReads == 2

\* ------------------------------------------------------- program constants
\* pipeline.py:100  if len(clean_reviews) < 5
MinClean == 5
\* pipeline.py:102  clean_reviews = raw_reviews[:15]
RawTop == 15

\* Job ids.  Spec creates job 1 only; job 2 stays unknown to the store.
JobIds == {1, 2}
OneJob == {1}

\* models.py JobStatus values, as the strings stored in jobs.status.
QUEUED == "queued"
SCRAPING == "scraping"
CLASSIFYING == "classifying"
ANALYZING == "analyzing"
GENERATING == "generating"
DONE == "done"
FAILED == "failed"
CANCELLED == "cancelled"

Terminal == {DONE, FAILED, CANCELLED}

\* SQL NULL of a text column, and of the JSON column.
NullStr == "NULL"
NullJson == [kind |-> "null", body |-> 0]

\* A stage text: a format and the number formatted into it (0 when none).
StageText(fmt, n) == [fmt |-> fmt, arg |-> n]

\* Values of the request body of POST /analyze.
ProductNames == {"acme"}
Maus == {0}
Arpus == {0}

\* Responses the remote stages can give.
\* A raw review item is a positive integer; the classifier returns its own
\* object (ClassifiedReview) for an item it accepts, written as the negative.
Classified(item) == 0 - item
ScrapeSizes == 0..MaxRaw
CleanSizes == 0..MaxClean
\* The analysis service always answers a dict with its five keys; body names
\* its content (body 0 is kept for the empty dict, which it never returns).
AnalysisResults == {[kind |-> "dict", body |-> 1], [kind |-> "dict", body |-> 2]}
ReportPaths == {"report.pdf", NullStr}
StageErrors == {"stage call failed"}

ZeroReviewsMsg == "Scraper returned 0 reviews. Check product name or sources."
CancelMsg == "User cancellation"
CancelStage == StageText("Analysis stopped by user.", 0)

VARIABLES
    store,            \* the jobs table: job_id -> row
    pc,               \* position of run_pipeline(job_id)
    raw_reviews,      \* local of run_pipeline
    classify_result,  \* local of run_pipeline: the classify response
    clean_reviews,    \* local of run_pipeline
    analysis_result,  \* local of run_pipeline
    report_path,      \* local of run_pipeline
    exc,              \* str(e) of the exception being handled, NullStr if none
    calls,            \* stage requests sent, in order
    cpc,              \* position of the cancel_job request in progress
    cjob,             \* the row cancel_job loaded into its session
    cresp,            \* status seen and HTTP code of the latest cancel_job
    ncancel,          \* number of cancel_job requests started
    statusHist,       \* distinct status values stored, in order
    accepted,         \* for every committed cancel: what it overwrote
    resp,             \* the latest answer of analyze, get_status, get_result_json
    nreads            \* number of GET requests served

vars == <<store, pc, raw_reviews, classify_result, clean_reviews, analysis_result, report_path,
          exc, calls,
          cpc, cjob, cresp, ncancel, statusHist, accepted, resp, nreads>>

locals == <<raw_reviews, classify_result, clean_reviews, analysis_result, report_path, exc>>
cancelVars == <<cpc, cjob, cresp, ncancel, accepted>>
readVars == <<resp, nreads>>

Min(a, b) == IF a < b THEN a ELSE b

\* ------------------------------------------------------------- jobs table
\* db.py:42: created_at is the column default, evaluated once at INSERT.
CreatedAt == "utcnow() at insert"

\* Mutation: the row is created with the other initial status of db.py.
NewJobPending(product_name, mau, arpu) ==
    [product_name |-> product_name,
     status       |-> "pending",
     stage        |-> StageText("Queued - waiting for worker", 0),
     progress_pct |-> 0,
     error        |-> NullStr,
     report_path  |-> NullStr,
     result_json  |-> NullJson,
     mau          |-> mau,
     arpu         |-> arpu,
     created_at   |-> CreatedAt]

\* db.py Job: the row POST /analyze inserts.
NewJob(product_name, mau, arpu) ==
    [product_name |-> product_name,
     status       |-> QUEUED,
     stage        |-> StageText("Queued - waiting for worker", 0),
     progress_pct |-> 0,
     error        |-> NullStr,
     report_path  |-> NullStr,
     result_json  |-> NullJson,
     mau          |-> mau,
     arpu         |-> arpu,
     created_at   |-> CreatedAt]

\* json.dumps of a dict: the text stored in the result_json column.
JsonDumps(v) == [kind |-> "text", body |-> v.body]

\* pipeline.py _update_job: serialise a dict result_json, then
\* UPDATE jobs SET <patch> WHERE job_id = :job_id (no row: nothing happens).
Serialise(patch) ==
    IF "result_json" \in DOMAIN patch /\ patch.result_json.kind = "dict"
    THEN [patch EXCEPT !.result_json = JsonDumps(@)]
    ELSE patch

ApplyPatch(row, patch) ==
    [f \in DOMAIN row |-> IF f \in DOMAIN patch THEN patch[f] ELSE row[f]]

\* Mutation: the UPDATE is an upsert, so an unknown job_id gets a row.
update_job_upsert(s, job_id, patch) ==
    [k \in DOMAIN s \cup {job_id} |->
        ApplyPatch(IF k \in DOMAIN s THEN s[k] ELSE NewJob("", 0, 0),
                   IF k = job_id THEN Serialise(patch) ELSE <<>>)]

\* Mutation: the UPDATE has lost its WHERE clause.
update_job_every_row(s, job_id, patch) ==
    [k \in DOMAIN s |-> ApplyPatch(s[k], Serialise(patch))]

update_job(s, job_id, patch) ==
    IF job_id \in DOMAIN s
    THEN [s EXCEPT ![job_id] = ApplyPatch(@, Serialise(patch))]
    ELSE s

\* pipeline.py check_if_cancelled.
check_if_cancelled(s, job_id) ==
    job_id \in DOMAIN s /\ s[job_id].status = CANCELLED

\* The status history: a stored status that differs from the one before.
Observe(j) ==
    statusHist' = [statusHist EXCEPT ![j] =
        IF j \in DOMAIN store'
           /\ (j \notin DOMAIN store \/ store'[j].status # store[j].status)
        THEN Append(@, store'[j].status)
        ELSE @]

\* --------------------------------------------------------- HTTP answers
\* What a handler answers: the HTTP code and the fields of JobResponse,
\* StatusResponse or the raw result (fields an answer lacks are null).
NoStage == StageText("", 0)

Response(op, job_id, code, status, stage, pct, error, url, result) ==
    [op |-> op, job_id |-> job_id, code |-> code, status |-> status,
     stage |-> stage, progress_pct |-> pct, error |-> error,
     report_url |-> url, result |-> result]

NoResponse ==
    Response("none", 0, 0, NullStr, NoStage, 0, NullStr, NullStr, NullJson)

\* ------------------------------------------------------------------- Init
Init ==
    /\ store = <<>>
    /\ pc = [j \in JobIds |-> "none"]
    /\ raw_reviews = [j \in JobIds |-> <<>>]
    /\ classify_result = [j \in JobIds |-> [got |-> FALSE, reviews |-> <<>>]]
    /\ clean_reviews = [j \in JobIds |-> <<>>]
    /\ analysis_result = [j \in JobIds |-> NullJson]
    /\ report_path = [j \in JobIds |-> NullStr]
    /\ exc = [j \in JobIds |-> NullStr]
    /\ calls = [j \in JobIds |-> <<>>]
    /\ cpc = [j \in JobIds |-> "idle"]
    /\ cjob = [j \in JobIds |-> NewJob("", 0, 0)]
    /\ cresp = [j \in JobIds |-> [seen |-> "none", code |-> 0]]
    /\ ncancel = [j \in JobIds |-> 0]
    /\ statusHist = [j \in JobIds |-> <<>>]
    /\ accepted = [j \in JobIds |-> {}]
    /\ resp = NoResponse
    /\ nreads = 0

\* ----------------------------------------------------------- POST /analyze
\* main.py analyze: insert the row, commit, schedule run_pipeline.
analyze(j, product_name, mau, arpu) ==
    /\ j \notin DOMAIN store
    /\ store' = [k \in DOMAIN store \cup {j} |->
                    IF k = j THEN NewJob(product_name, mau, arpu) ELSE store[k]]
    /\ pc' = [pc EXCEPT ![j] = "check0"]
    /\ resp' = Response("analyze", j, 200, QUEUED, NoStage, 0, NullStr,
                        NullStr, NullJson)
    /\ Observe(j)
    /\ UNCHANGED <<locals, calls, cancelVars, nreads>>

\* ------------------------------------------------------------ run_pipeline
\* The patches run_pipeline passes to _update_job.
ScrapingPatch ==
    [status |-> SCRAPING,
     stage |-> StageText("Scraping reviews from Reddit, HN, G2...", 0),
     progress_pct |-> 10]

\* Mutation: the intermediate write carries a wrong literal.
ScrapedPatchWrongPct(j) ==
    [stage |-> StageText("Scraped {} raw items. Classifying...",
                         Len(raw_reviews[j])),
     progress_pct |-> 40]

ScrapedPatch(j) ==
    [stage |-> StageText("Scraped {} raw items. Classifying...",
                         Len(raw_reviews[j])),
     progress_pct |-> 30]

\* Mutation: the stage transition forgets the status column.
ClassifyingPatchNoStatus ==
    [stage |-> StageText("Filtering spam, classifying quality...", 0),
     progress_pct |-> 35]

ClassifyingPatch ==
    [status |-> CLASSIFYING,
     stage |-> StageText("Filtering spam, classifying quality...", 0),
     progress_pct |-> 35]

ClassifiedPatch(j) ==
    [stage |-> StageText("{} quality reviews. Running analysis...",
                         Len(clean_reviews[j])),
     progress_pct |-> 55]

AnalyzingPatch ==
    [status |-> ANALYZING,
     stage |-> StageText("Running 4 parallel AI agents...", 0),
     progress_pct |-> 60]

AnalyzedPatch ==
    [stage |-> StageText("Generating PDF report...", 0),
     progress_pct |-> 80]

\* Mutation: the analysis output is persisted before the report exists.
GeneratingPatchEarlyResult(j) ==
    [status |-> GENERATING,
     stage |-> StageText("Minting PDF...", 0),
     progress_pct |-> 85,
     result_json |-> analysis_result[j]]

GeneratingPatch(j) ==
    [status |-> GENERATING,
     stage |-> StageText("Minting PDF...", 0),
     progress_pct |-> 85]

DonePatch(j) ==
    [status |-> DONE,
     stage |-> StageText("Complete", 0),
     progress_pct |-> 100,
     report_path |-> report_path[j],
     result_json |-> analysis_result[j]]

\* Mutation: the failure write also blanks the request inputs of the row.
FailedPatchBlanksInputs(j) ==
    [status |-> FAILED,
     stage |-> StageText("Failed", 0),
     error |-> exc[j],
     progress_pct |-> 0,
     product_name |-> "",
     mau |-> 0 - 1,
     arpu |-> 0 - 1]

\* Mutation: the failure write leaves progress_pct where it was.
FailedPatchKeepsProgress(j) ==
    [status |-> FAILED,
     stage |-> StageText("Failed", 0),
     error |-> exc[j]]

FailedPatch(j) ==
    [status |-> FAILED,
     stage |-> StageText("Failed", 0),
     error |-> exc[j],
     progress_pct |-> 0]

\* Mutation: the fallback takes every raw item instead of the first 15.
DegradeUnsliced(clean, raw) ==
    IF Len(clean) < MinClean THEN raw ELSE clean

\* pipeline.py:99-102: the list handed to the analyze stage.
Degrade(clean, raw) ==
    IF Len(clean) < MinClean
    THEN SubSeq(raw, 1, Min(RawTop, Len(raw)))
    ELSE clean

\* The request body of a stage call, as far as the item list and the
\* analysis output go.
Call(stage, reviews, analysis) ==
    [stage |-> stage, reviews |-> reviews, analysis |-> analysis]

\* Mutation: a cancelled run records that it stopped before it returns.
CheckpointMarksRow(j, at, cont) ==
    /\ pc[j] = at
    /\ pc' = [pc EXCEPT ![j] =
                IF check_if_cancelled(store, j) THEN "returned" ELSE cont]
    /\ store' = IF check_if_cancelled(store, j)
                THEN update_job(store, j, [progress_pct |-> 0])
                ELSE store
    /\ UNCHANGED <<locals, calls, cancelVars, readVars, statusHist>>

\* Mutation: a cancelled run waits at the checkpoint instead of returning.
CheckpointWaits(j, at, cont) ==
    /\ pc[j] = at
    /\ pc' = [pc EXCEPT ![j] =
                IF check_if_cancelled(store, j) THEN at ELSE cont]
    /\ UNCHANGED <<store, locals, calls, cancelVars, readVars, statusHist>>

\* A cancellation checkpoint: `if check_if_cancelled(job_id): return`.
Checkpoint(j, at, cont) ==
    /\ pc[j] = at
    /\ pc' = [pc EXCEPT ![j] =
                IF check_if_cancelled(store, j) THEN "returned" ELSE cont]
    /\ UNCHANGED <<store, locals, calls, cancelVars, readVars, statusHist>>

\* An _update_job call that is not followed by a stage call.
Update(j, at, patch, cont) ==
    /\ pc[j] = at
    /\ store' = update_job(store, j, patch)
    /\ pc' = [pc EXCEPT ![j] = cont]
    /\ Observe(j)
    /\ UNCHANGED <<locals, calls, cancelVars, readVars>>

\* An _update_job call followed by client.post(...) of a stage.
UpdateAndCall(j, at, patch, call, cont) ==
    /\ pc[j] = at
    /\ store' = update_job(store, j, patch)
    /\ calls' = [calls EXCEPT ![j] = Append(@, call)]
    /\ pc' = [pc EXCEPT ![j] = cont]
    /\ Observe(j)
    /\ UNCHANGED <<locals, cancelVars, readVars>>

Check0(j) == Checkpoint(j, "check0", "set_scraping")

SetScraping(j) ==
    UpdateAndCall(j, "set_scraping", ScrapingPatch,
                  Call("scrape", <<>>, NullJson), "scrape_wait")

\* The scrape response: n items; none raises ValueError.
ScrapeReturns(j, n) ==
    /\ pc[j] = "scrape_wait"
    /\ raw_reviews' = [raw_reviews EXCEPT ![j] = [i \in 1..n |-> i]]
    /\ IF n = 0
       THEN /\ exc' = [exc EXCEPT ![j] = ZeroReviewsMsg]
            /\ pc' = [pc EXCEPT ![j] = "except"]
       ELSE /\ exc' = exc
            /\ pc' = [pc EXCEPT ![j] = "check1"]
    /\ UNCHANGED <<store, classify_result, clean_reviews, analysis_result,
                   report_path, calls, cancelVars, readVars, statusHist>>

Check1(j) == Checkpoint(j, "check1", "set_scraped")

SetScraped(j) == Update(j, "set_scraped", ScrapedPatch(j), "check2")

Check2(j) == Checkpoint(j, "check2", "set_classifying")

SetClassifying(j) ==
    UpdateAndCall(j, "set_classifying", ClassifyingPatch,
                  Call("classify", raw_reviews[j], NullJson), "classify_wait")

\* The classify response: the first k raw items, as classified objects.
ClassifyReturns(j, k) ==
    /\ pc[j] = "classify_wait"
    /\ k <= Len(raw_reviews[j])
    /\ classify_result' = [classify_result EXCEPT ![j] =
          [got |-> TRUE,
           reviews |-> [i \in 1..k |-> Classified(raw_reviews[j][i])]]]
    /\ clean_reviews' = [clean_reviews EXCEPT ![j] =
          Degrade(classify_result'[j].reviews, raw_reviews[j])]
    /\ pc' = [pc EXCEPT ![j] = "check3"]
    /\ UNCHANGED <<store, raw_reviews, analysis_result, report_path, exc,
                   calls, cancelVars, readVars, statusHist>>

Check3(j) == Checkpoint(j, "check3", "set_classified")

SetClassified(j) == Update(j, "set_classified", ClassifiedPatch(j), "check4")

Check4(j) == Checkpoint(j, "check4", "set_analyzing")

SetAnalyzing(j) ==
    UpdateAndCall(j, "set_analyzing", AnalyzingPatch,
                  Call("analyze", clean_reviews[j], NullJson), "analyze_wait")

AnalyzeReturns(j, res) ==
    /\ pc[j] = "analyze_wait"
    /\ analysis_result' = [analysis_result EXCEPT ![j] = res]
    /\ pc' = [pc EXCEPT ![j] = "check5"]
    /\ UNCHANGED <<store, raw_reviews, classify_result, clean_reviews,
                   report_path, exc, calls, cancelVars, readVars, statusHist>>

Check5(j) == Checkpoint(j, "check5", "set_analyzed")

SetAnalyzed(j) == Update(j, "set_analyzed", AnalyzedPatch, "set_generating")

\* Mutation: the report request carries the raw items.
SetGeneratingSendsRaw(j) ==
    UpdateAndCall(j, "set_generating", GeneratingPatch(j),
                  Call("render", raw_reviews[j], analysis_result[j]),
                  "render_wait")

\* Mutation: the report request goes to the /analyze endpoint of the same
\* service.
SetGeneratingPostsAnalyze(j) ==
    UpdateAndCall(j, "set_generating", GeneratingPatch(j),
                  Call("analyze", clean_reviews[j], analysis_result[j]),
                  "render_wait")

SetGenerating(j) ==
    UpdateAndCall(j, "set_generating", GeneratingPatch(j),
                  Call("render", clean_reviews[j], analysis_result[j]),
                  "render_wait")

\* The render response: gen_result.get("report_path").
RenderReturns(j, path) ==
    /\ pc[j] = "render_wait"
    /\ report_path' = [report_path EXCEPT ![j] = path]
    /\ pc' = [pc EXCEPT ![j] = "set_done"]
    /\ UNCHANGED <<store, raw_reviews, classify_result, clean_reviews,
                   analysis_result, exc, calls, cancelVars, readVars, statusHist>>

SetDone(j) == Update(j, "set_done", DonePatch(j), "finished")

\* A stage call raises: timeout, raise_for_status, a malformed body.
InFlight == {"scrape_wait", "classify_wait", "analyze_wait", "render_wait"}

StageRaises(j, msg) ==
    /\ pc[j] \in InFlight
    /\ exc' = [exc EXCEPT ![j] = msg]
    /\ pc' = [pc EXCEPT ![j] = "except"]
    /\ UNCHANGED <<store, raw_reviews, classify_result, clean_reviews,
                   analysis_result, report_path, calls, cancelVars,
                   readVars, statusHist>>

\* Mutation: the handler starts the run again instead of re-raising.
HandleFailureRetries(j) == Update(j, "except", FailedPatch(j), "check0")

\* except Exception as e: _update_job(... FAILED ...); raise
HandleFailure(j) == Update(j, "except", FailedPatch(j), "raised")

\* ------------------------------------------------------ POST /cancel/{id}
\* main.py:121-128: select the row; 404 if none, 400 if DONE or FAILED.
CancelRejects == {DONE, FAILED}

CancelLoad(j) ==
    /\ cpc[j] = "idle"
    /\ ncancel[j] < MaxCancels
    /\ ncancel' = [ncancel EXCEPT ![j] = @ + 1]
    /\ IF j \notin DOMAIN store
       THEN /\ cresp' = [cresp EXCEPT ![j] = [seen |-> "unknown", code |-> 404]]
            /\ UNCHANGED <<cpc, cjob>>
       ELSE IF store[j].status \in CancelRejects
       THEN /\ cresp' = [cresp EXCEPT ![j] =
                           [seen |-> store[j].status, code |-> 400]]
            /\ UNCHANGED <<cpc, cjob>>
       ELSE /\ cresp' = [cresp EXCEPT ![j] =
                           [seen |-> store[j].status, code |-> 0]]
            /\ cjob' = [cjob EXCEPT ![j] = store[j]]
            /\ cpc' = [cpc EXCEPT ![j] = "loaded"]
    /\ UNCHANGED <<store, pc, locals, calls, statusHist, accepted, readVars>>

\* Mutation: cancelling also resets the progress of the job.
CancelPatchResetsProgress ==
    [status |-> CANCELLED, stage |-> CancelStage, error |-> CancelMsg,
     progress_pct |-> 0]

\* main.py:131-133: the attributes cancel_job assigns.
CancelPatch ==
    [status |-> CANCELLED, stage |-> CancelStage, error |-> CancelMsg]

\* The UPDATE the session flushes on commit: the assigned attributes whose
\* value differs from the one loaded.
Flushed(loaded, patch) ==
    [f \in {g \in DOMAIN patch : patch[g] # loaded[g]} |-> patch[f]]

\* main.py:134-142: commit, then answer 200.
CancelCommit(j) ==
    /\ cpc[j] = "loaded"
    /\ store' = [store EXCEPT ![j] =
                    ApplyPatch(@, Flushed(cjob[j], CancelPatch))]
    /\ cpc' = [cpc EXCEPT ![j] = "idle"]
    /\ cresp' = [cresp EXCEPT ![j].code = 200]
    /\ accepted' = [accepted EXCEPT ![j] = @ \cup
          {[st |-> store[j].status, at |-> pc[j], ncalls |-> Len(calls[j])]}]
    /\ Observe(j)
    /\ UNCHANGED <<pc, locals, calls, cjob, ncancel, readVars>>

\* ------------------------------------------- GET /status, GET /result
\* The JSON column type: the stored text read back as a Python value.
JsonLoads(v) == IF v.kind = "text" THEN [kind |-> "dict", body |-> v.body] ELSE v

\* Python truth of a result: None and the empty dict are false.
Truthy(v) == v.kind # "null" /\ v.body # 0

ReportUrl == "/report/{job_id}"

\* Mutation: the report link is offered whenever a report file is stored.
get_status_response_by_path(s, job_id) ==
    IF job_id \notin DOMAIN s
    THEN Response("status", job_id, 404, NullStr, NoStage, 0, NullStr,
                  NullStr, NullJson)
    ELSE Response("status", job_id, 200, s[job_id].status, s[job_id].stage,
                  s[job_id].progress_pct, s[job_id].error,
                  IF s[job_id].report_path # NullStr THEN ReportUrl ELSE NullStr,
                  NullJson)

\* main.py:81-96 get_status.
get_status_response(s, job_id) ==
    IF job_id \notin DOMAIN s
    THEN Response("status", job_id, 404, NullStr, NoStage, 0, NullStr,
                  NullStr, NullJson)
    ELSE Response("status", job_id, 200, s[job_id].status, s[job_id].stage,
                  s[job_id].progress_pct, s[job_id].error,
                  IF s[job_id].status = DONE THEN ReportUrl ELSE NullStr,
                  NullJson)

\* Mutation: readiness is judged by the status, not by the stored result.
get_result_response_by_status(s, job_id) ==
    IF job_id \notin DOMAIN s
    THEN Response("result", job_id, 404, NullStr, NoStage, 0, NullStr,
                  NullStr, NullJson)
    ELSE IF s[job_id].status # DONE
    THEN Response("result", job_id, 400, NullStr, NoStage, 0, NullStr,
                  NullStr, NullJson)
    ELSE Response("result", job_id, 200, NullStr, NoStage, 0, NullStr,
                  NullStr, JsonLoads(s[job_id].result_json))

\* main.py:103-112 get_result_json.
get_result_response(s, job_id) ==
    IF job_id \notin DOMAIN s
    THEN Response("result", job_id, 404, NullStr, NoStage, 0, NullStr,
                  NullStr, NullJson)
    ELSE IF ~Truthy(JsonLoads(s[job_id].result_json))
    THEN Response("result", job_id, 400, NullStr, NoStage, 0, NullStr,
                  NullStr, NullJson)
    ELSE Response("result", job_id, 200, NullStr, NoStage, 0, NullStr,
                  NullStr, JsonLoads(s[job_id].result_json))

\* Mutation: polling a job puts its run back at the start.
get_status_restarts(j) ==
    /\ nreads < MaxReads
    /\ nreads' = nreads + 1
    /\ resp' = get_status_response(store, j)
    /\ pc' = [pc EXCEPT ![j] = IF j \in DOMAIN store THEN "check0" ELSE @]
    /\ UNCHANGED <<store, locals, calls, cancelVars, statusHist>>

get_status(j) ==
    /\ nreads < MaxReads
    /\ nreads' = nreads + 1
    /\ resp' = get_status_response(store, j)
    /\ UNCHANGED <<store, pc, locals, calls, cancelVars, statusHist>>

get_result_json(j) ==
    /\ nreads < MaxReads
    /\ nreads' = nreads + 1
    /\ resp' = get_result_response(store, j)
    /\ UNCHANGED <<store, pc, locals, calls, cancelVars, statusHist>>

\* ------------------------------------------------------------------- Next
\* run_pipeline(j) against stages that answer from the given sets.
PipelineOn(j, sizes, cleans, results, paths, errors) ==
    \/ Check0(j)
    \/ SetScraping(j)
    \/ \E n \in sizes : ScrapeReturns(j, n)
    \/ Check1(j)
    \/ SetScraped(j)
    \/ Check2(j)
    \/ SetClassifying(j)
    \/ \E k \in cleans : ClassifyReturns(j, k)
    \/ Check3(j)
    \/ SetClassified(j)
    \/ Check4(j)
    \/ SetAnalyzing(j)
    \/ \E res \in results : AnalyzeReturns(j, res)
    \/ Check5(j)
    \/ SetAnalyzed(j)
    \/ SetGenerating(j)
    \/ \E path \in paths : RenderReturns(j, path)
    \/ SetDone(j)
    \/ \E msg \in errors : StageRaises(j, msg)
    \/ HandleFailure(j)

Pipeline(j) ==
    PipelineOn(j, ScrapeSizes, CleanSizes, AnalysisResults, ReportPaths,
               StageErrors)

Next ==
    \E j \in OneJob :
        \/ \E p \in ProductNames, m \in Maus, a \in Arpus : analyze(j, p, m, a)
        \/ Pipeline(j)
        \/ CancelLoad(j)
        \/ CancelCommit(j)

Spec == Init /\ [][Next]_vars

\* Two jobs side by side, each cancelled at most once, against stages that
\* return no item or one item.
FewSizes == {0, 1}
FewCleans == {0, 1}
OneResult == {[kind |-> "dict", body |-> 1]}
OnePath == {"report.pdf"}
NoClean == {0}

NextTwo ==
    \E j \in JobIds :
        \/ \E p \in ProductNames, m \in Maus, a \in Arpus : analyze(j, p, m, a)
        \/ PipelineOn(j, FewSizes, NoClean, OneResult, OnePath, StageErrors)
        \/ ncancel[j] < 1 /\ CancelLoad(j)
        \/ CancelCommit(j)

SpecTwo == Init /\ [][NextTwo]_vars

\* One job and the read endpoints, which are also asked about job 2.
NextRead ==
    \/ \E j \in OneJob :
          \/ \E p \in ProductNames, m \in Maus, a \in Arpus :
                analyze(j, p, m, a)
          \/ PipelineOn(j, FewSizes, FewCleans, AnalysisResults, ReportPaths,
                        StageErrors)
          \/ ncancel[j] < 1 /\ CancelLoad(j)
          \/ CancelCommit(j)
    \/ \E j \in JobIds : get_status(j)
    \/ \E j \in JobIds : get_result_json(j)

SpecRead == Init /\ [][NextRead]_vars

\* run_pipeline is a plain function of job_id: called for an id that has no
\* row it runs against the services all the same (pipeline.py:56-66).
run_pipeline_unknown(j) ==
    /\ pc[j] = "none"
    /\ j \notin DOMAIN store
    /\ pc' = [pc EXCEPT ![j] = "check0"]
    /\ UNCHANGED <<store, locals, calls, cancelVars, readVars, statusHist>>

\* Job 1 created and run as usual; job 2 run without ever being created.
NextUnknown ==
    \/ \E j \in OneJob :
          \/ \E p \in ProductNames, m \in Maus, a \in Arpus :
                analyze(j, p, m, a)
          \/ ncancel[j] < 1 /\ CancelLoad(j)
          \/ CancelCommit(j)
    \/ \E j \in JobIds \ OneJob : run_pipeline_unknown(j)
    \/ \E j \in JobIds :
          PipelineOn(j, FewSizes, NoClean, OneResult, OnePath, StageErrors)

SpecUnknown == Init /\ [][NextUnknown]_vars

\* One job against a scraper that returns nothing or a full batch, and a
\* classifier that accepts any number of items up to MaxClean.
EdgeSizes == {0, MaxRaw}

NextItems ==
    \E j \in OneJob :
        \/ \E p \in ProductNames, m \in Maus, a \in Arpus : analyze(j, p, m, a)
        \/ PipelineOn(j, EdgeSizes, CleanSizes, AnalysisResults, ReportPaths,
                      StageErrors)
        \/ ncancel[j] < 1 /\ CancelLoad(j)
        \/ CancelCommit(j)

SpecItems == Init /\ [][NextItems]_vars

\* One job and its cancel requests, with the scheduling the program has:
\* BackgroundTasks runs run_pipeline to its end on a worker thread, every
\* stage call is an httpx request with a timeout (it returns or raises), and
\* the event loop finishes a cancel_job it has started.
RunLive(j) ==
    PipelineOn(j, FewSizes, FewCleans, OneResult, OnePath, StageErrors)

NextLive ==
    \E j \in OneJob :
        \/ \E p \in ProductNames, m \in Maus, a \in Arpus : analyze(j, p, m, a)
        \/ RunLive(j)
        \/ CancelLoad(j)
        \/ CancelCommit(j)

SpecLive ==
    /\ Init
    /\ [][NextLive]_vars
    /\ \A j \in OneJob : WF_vars(RunLive(j)) /\ WF_vars(CancelCommit(j))

\* ================================================================= claims
Ended == {"finished", "returned", "raised"}

IsPrefix(s, t) == Len(s) <= Len(t) /\ SubSeq(t, 1, Len(s)) = s

\* C1: once a job's stored status is DONE, FAILED or CANCELLED, no step of
\* run_pipeline or of cancel_job changes it to a different value.
C1_TerminalStatusIsFinal ==
    [][\A j \in DOMAIN store :
          store[j].status \in Terminal => store'[j].status = store[j].status]_vars

\* C2: a POST /cancel that finds the job in a terminal status (DONE, FAILED
\* or CANCELLED) is answered 400; it is never let through to the commit.
C2_CancelOnTerminalRejected ==
    \A j \in JobIds : cresp[j].seen \in Terminal => cresp[j].code = 400

\* C3: after a cancel has been committed, the pipeline starts no further
\* stage call (the one in flight at that moment may finish), and when both
\* the pipeline and the cancel handler have ended the status is CANCELLED.
C3_CancellationNeverLost ==
    \A j \in DOMAIN store : \A a \in accepted[j] :
        /\ Len(calls[j]) = a.ncalls
        /\ (pc[j] \in Ended /\ cpc[j] = "idle" => store[j].status = CANCELLED)

\* C4: a job whose cancel was committed while the stored status was SCRAPING
\* never has status CLASSIFYING, ANALYZING, GENERATING or DONE afterwards,
\* keeps result_json null, and ends CANCELLED.
C4_CancelledWhileScraping ==
    \A j \in DOMAIN store :
        (\E a \in accepted[j] : a.st = SCRAPING) =>
            /\ store[j].status \notin {CLASSIFYING, ANALYZING, GENERATING, DONE}
            /\ store[j].result_json = NullJson
            /\ (pc[j] \in Ended /\ cpc[j] = "idle"
                    => store[j].status = CANCELLED)

\* C5: when a cancel is committed while a stage call is in flight, the
\* result of that call is discarded: report_path and result_json stay null.
C5_InFlightResultDiscarded ==
    \A j \in DOMAIN store :
        (\E a \in accepted[j] : a.at \in InFlight) =>
            /\ store[j].result_json = NullJson
            /\ store[j].report_path = NullStr

\* C6: for a job that is never cancelled and none of whose stage calls
\* fails, the distinct status values stored are, in order, QUEUED, SCRAPING,
\* CLASSIFYING, ANALYZING, GENERATING, DONE: always a prefix of that list
\* while the run is under way, and the whole list once it has finished.
Happy == <<QUEUED, SCRAPING, CLASSIFYING, ANALYZING, GENERATING, DONE>>

C6_SuccessfulStatusSequence ==
    \A j \in DOMAIN store :
        accepted[j] = {} /\ exc[j] = NullStr =>
            /\ IsPrefix(statusHist[j], Happy)
            /\ (pc[j] = "finished" => statusHist[j] = Happy)

C6_Witness ==
    /\ 1 \in DOMAIN store
    /\ pc[1] = "finished"
    /\ accepted[1] = {}
    /\ store[1].status = DONE

\* C7 as stated: the only progress_pct values ever stored are 0, 10, 35, 60,
\* 85 and 100.
C7_OnlyStageLiterals ==
    \A j \in DOMAIN store : store[j].progress_pct \in {0, 10, 35, 60, 85, 100}

\* C7 amended: the progress_pct values stored are 0, 10, 30, 35, 55, 60, 80,
\* 85 and 100, and no step other than the write of FAILED lowers
\* progress_pct (so it never decreases in a successful, uncancelled run).
C7_ProgressValuesAndOrder ==
    /\ [](\A j \in DOMAIN store :
            store[j].progress_pct \in {0, 10, 30, 35, 55, 60, 80, 85, 100})
    /\ [][\A j \in DOMAIN store :
            store'[j].status # FAILED
                => store'[j].progress_pct >= store[j].progress_pct]_vars

C7_Witness ==
    /\ 1 \in DOMAIN store
    /\ accepted[1] = {}
    /\ ncancel[1] = 0
    /\ store[1].status = DONE
    /\ store[1].progress_pct = 100

\* C8: when the scrape stage returns 0 items, classify, analyze and render
\* are never called, and once run_pipeline has ended the job is FAILED with
\* progress_pct 0 and a non-empty error.
C8_ZeroItemsEndsFailed ==
    \A j \in DOMAIN store :
        exc[j] = ZeroReviewsMsg =>
            /\ \A i \in DOMAIN calls[j] : calls[j][i].stage = "scrape"
            /\ (pc[j] = "raised" =>
                    /\ store[j].status = FAILED
                    /\ store[j].progress_pct = 0
                    /\ store[j].error \notin {NullStr, ""})

\* C9: when the classify stage returns fewer than 5 items, the analyze stage
\* is called with the first 15 raw items (all of them when there are fewer),
\* and if no stage call fails and no cancel is committed the job is never
\* FAILED and is DONE when run_pipeline has ended.
C9_LowYieldDegrades ==
    \A j \in DOMAIN store :
        classify_result[j].got /\ Len(classify_result[j].reviews) < 5 =>
            /\ \A i \in DOMAIN calls[j] :
                  calls[j][i].stage = "analyze" =>
                      /\ Len(calls[j][i].reviews) = Min(15, Len(raw_reviews[j]))
                      /\ \A n \in DOMAIN calls[j][i].reviews :
                            calls[j][i].reviews[n] = raw_reviews[j][n]
            /\ (accepted[j] = {} /\ exc[j] = NullStr =>
                    /\ store[j].status # FAILED
                    /\ (pc[j] \in Ended => store[j].status = DONE))

C9_Witness ==
    /\ 1 \in DOMAIN store
    /\ classify_result[1].got
    /\ Len(classify_result[1].reviews) < 5
    /\ Len(raw_reviews[1]) > 15
    /\ accepted[1] = {}
    /\ pc[1] = "finished"
    /\ store[1].status = DONE

\* C10: a job whose status is FAILED has result_json and report_path null,
\* and so has a job whose render call raised once the failure is recorded.
RenderFailed(j) ==
    /\ exc[j] # NullStr
    /\ Len(calls[j]) > 0
    /\ calls[j][Len(calls[j])].stage = "render"

C10_FailedHasNoResult ==
    \A j \in DOMAIN store :
        store[j].status = FAILED \/ (RenderFailed(j) /\ pc[j] = "raised") =>
            /\ store[j].result_json = NullJson
            /\ store[j].report_path = NullStr

C10_Witness ==
    /\ 1 \in DOMAIN store
    /\ RenderFailed(1)
    /\ pc[1] = "raised"
    /\ analysis_result[1] # NullJson
    /\ store[1].status = FAILED

\* C11: when a stage call raises, the handler writes status FAILED with
\* progress_pct 0 and error equal to str(e), and from the moment of the
\* exception on no further stage call is sent.
C11_StageFailureWritesFailed ==
    /\ [][\A j \in DOMAIN store :
            pc[j] = "except" /\ pc'[j] # "except" =>
                /\ pc'[j] = "raised"
                /\ store'[j].status = FAILED
                /\ store'[j].progress_pct = 0
                /\ store'[j].error = exc[j]]_vars
    /\ [][\A j \in JobIds :
            exc[j] # NullStr => calls'[j] = calls[j] /\ exc'[j] = exc[j]]_vars
    /\ [](\A j \in JobIds :
            pc[j] \in {"except", "raised"} <=> exc[j] # NullStr)

C11_Witness ==
    /\ 1 \in DOMAIN store
    /\ pc[1] = "raised"
    /\ exc[1] \in StageErrors
    /\ Len(calls[1]) = 2
    /\ store[1].status = FAILED
    /\ store[1].error = exc[1]

\* C12: a job whose status is DONE has report_path and result_json set.
C12_DoneHasReportAndResult ==
    \A j \in DOMAIN store :
        store[j].status = DONE =>
            /\ store[j].report_path # NullStr
            /\ store[j].result_json # NullJson

\* C13: with two jobs, a step taken for one job (by its run_pipeline, its
\* cancel_job or its creation) changes neither the row of the other job nor
\* anything its run or its cancel handler holds, so the other job runs as it
\* would alone.
JobState(j) ==
    <<pc[j], raw_reviews[j], classify_result[j], clean_reviews[j],
      analysis_result[j], report_path[j], exc[j], calls[j], cpc[j], cjob[j],
      cresp[j], ncancel[j], statusHist[j], accepted[j]>>

RowUnchanged(j) ==
    /\ (j \in DOMAIN store') = (j \in DOMAIN store)
    /\ (j \in DOMAIN store => store'[j] = store[j])

JobUnchanged(j) == JobState(j)' = JobState(j) /\ RowUnchanged(j)

C13_JobsIndependent ==
    [][\A j \in JobIds : \A k \in JobIds \ {j} :
          ~JobUnchanged(k) => JobUnchanged(j)]_vars

C13_Witness ==
    /\ DOMAIN store = {1, 2}
    /\ accepted[1] # {}
    /\ store[1].status = CANCELLED
    /\ pc[1] = "returned"
    /\ accepted[2] = {}
    /\ pc[2] = "finished"
    /\ store[2].status = DONE

\* C14: the stages called for a job are always a prefix of scrape, classify,
\* analyze, render (so none is called twice), and a stage call is sent only
\* when no stage call of the job is in flight.
StageOrder == <<"scrape", "classify", "analyze", "render">>
StageNames(j) == [i \in DOMAIN calls[j] |-> calls[j][i].stage]

C14_StagesSequential ==
    /\ [](\A j \in JobIds : IsPrefix(StageNames(j), StageOrder))
    /\ [][\A j \in JobIds :
            calls'[j] # calls[j] =>
                /\ pc[j] \notin InFlight
                /\ pc'[j] \in InFlight
                /\ Len(calls'[j]) = Len(calls[j]) + 1
                /\ SubSeq(calls'[j], 1, Len(calls[j])) = calls[j]]_vars

C14_Witness ==
    /\ StageNames(1) = StageOrder
    /\ pc[1] = "finished"

\* C15: once the error column of a job is non-null, no step changes it.
C15_ErrorWrittenOnce ==
    [][\A j \in DOMAIN store :
          store[j].error # NullStr => store'[j].error = store[j].error]_vars

\* C16: status FAILED is written only by the failure handler, which then
\* ends the run: FAILED enters the status history at most once, and after it
\* run_pipeline sends no stage call and writes nothing (the row changes only
\* through a commit of cancel_job).
Count(seq, v) == Cardinality({i \in DOMAIN seq : seq[i] = v})

C16_FailedWrittenOnce ==
    /\ [][\A j \in DOMAIN store :
            /\ (store'[j].status = FAILED /\ store[j].status # FAILED
                    => pc[j] = "except" /\ pc'[j] = "raised")
            /\ (pc[j] = "raised" =>
                    /\ pc'[j] = "raised"
                    /\ calls'[j] = calls[j]
                    /\ (store'[j] # store[j]
                            => cpc[j] = "loaded" /\ cpc'[j] = "idle"))]_vars
    /\ [](\A j \in DOMAIN store :
            /\ Count(statusHist[j], FAILED) <= 1
            /\ (pc[j] = "raised" => Count(statusHist[j], FAILED) = 1))

C16_Witness ==
    /\ 1 \in DOMAIN store
    /\ pc[1] = "raised"
    /\ ncancel[1] = 0
    /\ statusHist[1] = <<QUEUED, SCRAPING, CLASSIFYING, ANALYZING, FAILED>>

\* C17: POST /analyze adds exactly one row, with status QUEUED, progress_pct
\* 0 and error, report_path and result_json null, leaves every other row
\* alone, schedules the run of that job only (no stage call has been sent
\* when it answers) and answers status queued; a status history always
\* starts with QUEUED.
C17_AnalyzeCreatesQueuedJob ==
    /\ [][\A j \in JobIds :
            j \notin DOMAIN store /\ j \in DOMAIN store' =>
                /\ DOMAIN store' = DOMAIN store \cup {j}
                /\ \A k \in DOMAIN store : store'[k] = store[k]
                /\ store'[j].status = QUEUED
                /\ store'[j].progress_pct = 0
                /\ store'[j].error = NullStr
                /\ store'[j].report_path = NullStr
                /\ store'[j].result_json = NullJson
                /\ pc[j] = "none" /\ pc'[j] = "check0"
                /\ \A k \in JobIds \ {j} : pc'[k] = pc[k]
                /\ calls'[j] = <<>>
                /\ resp'.op = "analyze" /\ resp'.code = 200
                /\ resp'.job_id = j /\ resp'.status = QUEUED]_vars
    /\ [](\A j \in JobIds :
            /\ (pc[j] # "none" <=> j \in DOMAIN store)
            /\ (j \in DOMAIN store => statusHist[j][1] = QUEUED))

C17_Witness ==
    /\ DOMAIN store = {1, 2}
    /\ pc[1] = "scrape_wait"
    /\ pc[2] = "check0"
    /\ store[2].status = QUEUED
    /\ resp.job_id = 2

\* C18: a POST /cancel that found its job in a non-terminal status leaves
\* the row with status CANCELLED and error "User cancellation" when it
\* commits; one for an unknown job_id answers 404 and leaves the table as
\* it is.
C18_CancelSetsCancelled ==
    [][\A j \in JobIds :
          /\ (cpc[j] = "loaded" /\ cpc'[j] = "idle"
                /\ cjob[j].status \notin Terminal =>
                    /\ store'[j].status = CANCELLED
                    /\ store'[j].error = CancelMsg)
          /\ (ncancel'[j] # ncancel[j] /\ j \notin DOMAIN store =>
                    /\ cresp'[j].code = 404
                    /\ cpc'[j] = "idle"
                    /\ store' = store)]_vars

\* C19: a GET /status or GET /result request changes no row, starts no run
\* and no stage call: it leaves everything but the answer as it was.
C19_ReadsChangeNothing ==
    [][nreads' # nreads =>
          /\ resp'.op \in {"status", "result"}
          /\ UNCHANGED <<store, pc, locals, calls, cancelVars, statusHist>>]_vars

C19_Witness ==
    /\ nreads = MaxReads
    /\ resp.op = "status"
    /\ resp.code = 200
    /\ pc[1] \in InFlight

\* C20: GET /result answers 404 for an unknown job, 400 for a job whose
\* result_json is null, and otherwise 200 with the analysis output that
\* run_pipeline stored.
C20_ResultWhenStored ==
    [][nreads' # nreads /\ resp'.op = "result" =>
          LET j == resp'.job_id IN
          IF j \notin DOMAIN store THEN resp'.code = 404
          ELSE IF store[j].result_json = NullJson THEN resp'.code = 400
          ELSE /\ resp'.code = 200
               /\ resp'.result = analysis_result[j]]_vars

C20_Witness ==
    /\ resp.op = "result"
    /\ resp.code = 200
    /\ resp.job_id = 1
    /\ resp.result \in AnalysisResults

\* C21: no step (a write of run_pipeline, cancel_job, a read, the creation of
\* another job) changes the product_name, mau, arpu or created_at of an
\* existing row or the job_id it is stored under, and no step removes a row.
C21_InputsNeverChange ==
    [][\A j \in DOMAIN store :
          /\ j \in DOMAIN store'
          /\ store'[j].product_name = store[j].product_name
          /\ store'[j].mau = store[j].mau
          /\ store'[j].arpu = store[j].arpu
          /\ store'[j].created_at = store[j].created_at]_vars

C21_Witness ==
    /\ 1 \in DOMAIN store
    /\ pc[1] = "raised"
    /\ accepted[1] # {}
    /\ store[1].status = FAILED
    /\ nreads = MaxReads
    /\ store[1].product_name \in ProductNames
    /\ store[1].created_at = CreatedAt

\* C22: every _update_job of a run whose job_id has no row leaves the table
\* exactly as it was (no row added, no other row changed) and raises
\* nothing: the run goes on, and only a stage call can send it to the
\* failure handler.
C22_UpdateUnknownIsNoOp ==
    [][\A j \in JobIds :
          j \notin DOMAIN store /\ pc[j] # "none" /\ pc'[j] # pc[j] =>
              /\ store' = store
              /\ (pc'[j] = "except" => pc[j] \in InFlight)]_vars

C22_Witness ==
    /\ 2 \notin DOMAIN store
    /\ pc[2] = "finished"
    /\ Len(calls[2]) = 4
    /\ 1 \in DOMAIN store
    /\ pc[1] = "check0"
    /\ store[1] = NewJob("acme", 0, 0)

\* C23: a checkpoint that reads CANCELLED ends the run there and then,
\* writing nothing and calling nothing; a run ends as returned only in that
\* way, and once returned it sends no stage call and writes nothing (the row
\* changes only through a commit of cancel_job).
CheckPcs == {"check0", "check1", "check2", "check3", "check4", "check5"}

C23_CancelledCheckReturns ==
    [][\A j \in DOMAIN store :
          /\ (pc[j] \in CheckPcs /\ pc'[j] # pc[j]
                /\ store[j].status = CANCELLED =>
                    /\ pc'[j] = "returned"
                    /\ store' = store
                    /\ calls' = calls)
          /\ (pc'[j] = "returned" /\ pc[j] # "returned" =>
                    pc[j] \in CheckPcs /\ store[j].status = CANCELLED)
          /\ (pc[j] = "returned" =>
                    /\ pc'[j] = "returned"
                    /\ calls'[j] = calls[j]
                    /\ (store'[j] # store[j]
                            => cpc[j] = "loaded" /\ cpc'[j] = "idle"))]_vars

C23_Witness ==
    /\ 1 \in DOMAIN store
    /\ pc[1] = "returned"
    /\ StageNames(1) = <<"scrape", "classify", "analyze">>
    /\ store[1].status = CANCELLED
    /\ store[1].progress_pct = 60

\* C24: after a cancel has been committed, the only stage that may still be
\* called is one whose checkpoint had already been passed at that moment
\* (the run stood between that checkpoint and the call); every stage whose
\* checkpoint was still to come is never called.
CheckPassed == {"set_scraping", "set_classifying", "set_analyzing",
                "set_analyzed", "set_generating"}

C24_NoStageAfterCommittedCancel ==
    \A j \in DOMAIN store : \A a \in accepted[j] :
        Len(calls[j]) <= a.ncalls + (IF a.at \in CheckPassed THEN 1 ELSE 0)

\* C25: every created job ends: its run_pipeline reaches its end (finished,
\* returned at a checkpoint, or raised) and from then on the stored status
\* is DONE, FAILED or CANCELLED, whatever cancel requests come in.
C25_EveryJobEnds ==
    \A j \in OneJob :
        [](j \in DOMAIN store =>
              <>[](pc[j] \in Ended /\ store[j].status \in Terminal))

C25_Witness ==
    /\ 1 \in DOMAIN store
    /\ pc[1] = "finished"
    /\ ncancel[1] = MaxCancels
    /\ cpc[1] = "idle"
    /\ store[1].status = CANCELLED

\* C26: a job whose status is DONE has error null.
C26_DoneHasNoError ==
    \A j \in DOMAIN store : store[j].status = DONE => store[j].error = NullStr

\* C27: a CANCELLED job has error "User cancellation", a FAILED job has
\* progress_pct 0, a DONE job has progress_pct 100.
C27_TerminalFields ==
    \A j \in DOMAIN store :
        /\ (store[j].status = CANCELLED => store[j].error = CancelMsg)
        /\ (store[j].status = FAILED => store[j].progress_pct = 0)
        /\ (store[j].status = DONE => store[j].progress_pct = 100)

\* C28: the commit of cancel_job leaves progress_pct, report_path and
\* result_json of the row as they are in the table at that moment, and the
\* first step of cancel_job writes nothing; when it finds the job DONE or
\* FAILED it answers 400 and no commit follows.
C28_CancelKeepsResultFields ==
    [][\A j \in JobIds :
          /\ (cpc[j] = "loaded" /\ cpc'[j] = "idle" =>
                /\ store'[j].progress_pct = store[j].progress_pct
                /\ store'[j].report_path = store[j].report_path
                /\ store'[j].result_json = store[j].result_json)
          /\ (ncancel'[j] # ncancel[j] =>
                /\ store' = store
                /\ (j \in DOMAIN store /\ store[j].status \in {DONE, FAILED} =>
                        cresp'[j].code = 400 /\ cpc'[j] = "idle"))]_vars

C28_Witness ==
    /\ 1 \in DOMAIN store
    /\ cresp[1].code = 200
    /\ store[1].status = CANCELLED
    /\ store[1].progress_pct = 100
    /\ store[1].report_path # NullStr
    /\ store[1].result_json # NullJson

\* C29: when classify returned 5 items or more, the analyze call carries
\* exactly the classified list; the render call carries the item list of
\* the analyze call and the output analyze returned; and that output,
\* serialised, is what the write of DONE stores as result_json.
CallsOf(j, stage) == {i \in DOMAIN calls[j] : calls[j][i].stage = stage}

C29_SameListToAnalyzeAndRender ==
    \A j \in DOMAIN store :
        /\ (classify_result[j].got /\ Len(classify_result[j].reviews) >= 5 =>
                \A i \in CallsOf(j, "analyze") :
                    calls[j][i].reviews = classify_result[j].reviews)
        /\ \A r \in CallsOf(j, "render") :
              /\ CallsOf(j, "analyze") # {}
              /\ \A i \in CallsOf(j, "analyze") :
                    calls[j][r].reviews = calls[j][i].reviews
              /\ calls[j][r].analysis = analysis_result[j]
              /\ calls[j][r].analysis \in AnalysisResults
              /\ (store[j].status = DONE \/ pc[j] = "finished" =>
                    JsonLoads(store[j].result_json) = calls[j][r].analysis)
        /\ (store[j].status = DONE => CallsOf(j, "render") # {})

C29_Witness ==
    /\ 1 \in DOMAIN store
    /\ pc[1] = "finished"
    /\ store[1].status = DONE
    /\ Len(classify_result[1].reviews) >= 5
    /\ calls[1][4].stage = "render"
    /\ calls[1][4].reviews = classify_result[1].reviews

\* C30: GET /status answers 404 for an unknown job_id, and otherwise 200
\* with the report link when the stored status is DONE and with a null
\* report_url for every other status.
C30_ReportUrlIffDone ==
    [][nreads' # nreads /\ resp'.op = "status" =>
          LET j == resp'.job_id IN
          IF j \notin DOMAIN store
          THEN resp'.code = 404 /\ resp'.report_url = NullStr
          ELSE /\ resp'.code = 200
               /\ resp'.status = store[j].status
               /\ resp'.report_url =
                    IF store[j].status = DONE THEN ReportUrl ELSE NullStr]_vars

C30_Witness ==
    /\ resp.op = "status"
    /\ resp.code = 200
    /\ resp.job_id = 1
    /\ resp.status = CANCELLED
    /\ resp.report_url = NullStr
    /\ store[1].report_path # NullStr

====
